---- MODULE Spec2Model ----
(***************************************************************************)
(* The image deployment handler of cdk-ecr-deployment (lambda/main.go):    *)
(* one Lambda process that serves either CloudFormation custom-resource    *)
(* events (cfnHandler) or CodePipeline job events (codePipelineHandler)    *)
(* and copies an image with handleImages.                                  *)
(*                                                                         *)
(* Text (log lines, error messages, summaries, image names) is a sequence  *)
(* of string fragments; fmt.Sprintf is the concatenation of its fragments. *)
(* A value appears in a text when it is one of the text's fragments.       *)
(***************************************************************************)
EXTENDS Naturals, Sequences, FiniteSets, TLC

VARIABLES
    invoker,        \* the INVOKER environment variable of the process
    pc,             \* position of the current invocation
    event,          \* the event being handled (either envelope)
    userParameters, \* the decoded UserParameters
    srcCreds,       \* handleImages: resolved source credential
    destCreds,      \* handleImages: resolved destination credential
    srcRef,         \* handleImages: parsed source reference
    destRef,        \* handleImages: parsed destination reference
    srcCtx,         \* handleImages: source system context
    destCtx,        \* handleImages: destination system context
    copyCtx,        \* handleImages: the context handed to copy.Image
    policy,         \* trust-policy handle: acquired / destroyed counts
    reads,          \* secret-store reads of this invocation, per side
    engineCalls,    \* number of copy.Image calls of this invocation
    engineErr,      \* what the engine returned
    hiErr,          \* what handleImages returned
    returned,       \* what the handler returned to the Lambda runtime
    successCalls,   \* PutJobSuccessResult calls of this invocation
    failureCalls,   \* PutJobFailureResult calls of this invocation
    log,            \* log lines of this invocation
    ctxDone,        \* the invocation's own deadline has expired
    steps,          \* the steps of handleImages that have run, with their outcome
    putJobErr,      \* what the job-control call returned
    synth           \* what the ECRDeployment construct has synthesized, until it is deployed

vars == <<invoker, pc, event, userParameters, srcCreds, destCreds, srcRef,
          destRef, srcCtx, destCtx, copyCtx, policy, reads, engineCalls,
          engineErr, hiErr, returned, successCalls, failureCalls, log,
          ctxDone, steps, putJobErr, synth>>

----------------------------------------------------------------------------
(* Errors and text *)

NoErr == [isErr |-> FALSE, msg |-> <<>>]

Err(m) == [isErr |-> TRUE, msg |-> m]

Contains(text, v) == \E i \in 1..Len(text) : text[i] = v

None == [set |-> FALSE]

----------------------------------------------------------------------------
(* Inputs *)

NoCreds == [plainText |-> "", secretArn |-> "", usernameKey |-> "", passwordKey |-> ""]

CredsSet ==
    { NoCreds,
      [NoCreds EXCEPT !.plainText = "u:p"],
      [NoCreds EXCEPT !.secretArn = "dockerhub"],
      [NoCreds EXCEPT !.secretArn = "dockerhub", !.plainText = "u:p"],
      [NoCreds EXCEPT !.secretArn = "kv-secret", !.usernameKey = "u", !.passwordKey = "p"],
      [NoCreds EXCEPT !.secretArn = "kv-secret", !.usernameKey = "u", !.passwordKey = "q"],
      [NoCreds EXCEPT !.secretArn = "kv-secret", !.usernameKey = "u"],
      [NoCreds EXCEPT !.secretArn = "dockerhub", !.usernameKey = "u", !.passwordKey = "p"] }

ImageSet ==
    { <<"docker", ":", "//", "repo/app:v1">>,
      <<"docker", ":", "//", "other/app:v1">>,
      <<"s3", ":", "//", "bucket/nginx.tar:nginx:latest">>,
      <<"ftp", ":", "//", "host/path">>,
      <<"docker", ":", "repo/app:v1">>,
      <<>> }

UserParametersSet ==
    [SrcImage : ImageSet, SrcCreds : CredsSet, DestImage : ImageSet, DestCreds : CredsSet]

ZeroParameters ==
    [SrcImage |-> <<>>, SrcCreds |-> NoCreds, DestImage |-> <<>>, DestCreds |-> NoCreds]

RequestCreate == "Create"

RequestUpdate == "Update"

RequestDelete == "Delete"

CfnEvents ==
    [kind : {"cfn"},
     RequestType : {RequestCreate, RequestUpdate, RequestDelete},
     PhysicalResourceID : {"", "res-1"},
     ID : {""},
     params : UserParametersSet]

CodePipelineJobEvents ==
    [kind : {"job"},
     RequestType : {""},
     PhysicalResourceID : {""},
     ID : {"job-1", "job-2"},
     params : UserParametersSet]

NoEvent ==
    [kind |-> "none", RequestType |-> "", PhysicalResourceID |-> "", ID |-> "",
     params |-> ZeroParameters]

InvokerSet == {"CODEPIPELINE", "CLOUDFORMATION", ""}

EngineErrors == {"manifest unknown", "unauthorized"}

----------------------------------------------------------------------------
(* The secret store: the raw secret string and, when the string is a JSON  *)
(* object, its key-value content.                                          *)

SecretStore ==
    [x \in {"dockerhub", "kv-secret"} |->
        IF x = "dockerhub"
        THEN [raw |-> "token123", isMap |-> FALSE, keys |-> {}, kv |-> [k \in {} |-> ""]]
        ELSE [raw |-> "{u:alice,p:s3cr3t}", isMap |-> TRUE, keys |-> {"u", "p"},
              kv |-> [k \in {"u", "p"} |-> IF k = "u" THEN "alice" ELSE "s3cr3t"]]]

\* GetSecret after a successful read: the split path when both key names are
\* present, the whole-secret path otherwise.
GetSecret(creds) ==
    LET s == SecretStore[creds.secretArn] IN
    IF creds.usernameKey # "" /\ creds.passwordKey # ""
    THEN IF s.isMap /\ creds.usernameKey \in s.keys /\ creds.passwordKey \in s.keys
         THEN [val |-> s.kv[creds.usernameKey] \o ":" \o s.kv[creds.passwordKey], err |-> NoErr]
         ELSE [val |-> "", err |-> Err(<<"MalformedSecret: ", creds.secretArn>>)]
    ELSE [val |-> s.raw, err |-> NoErr]

\* A read of the secret store that fails.
SecretNotFound(creds) ==
    [val |-> "", err |-> Err(<<"SecretNotFound: ", creds.secretArn>>)]

\* parseCreds that looks at the plaintext before the secret identifier.
parseCredsPlainFirst(creds, fetched) ==
    IF creds.plainText # ""
    THEN [val |-> creds.plainText, err |-> NoErr, reads |-> 0]
    ELSE IF creds.secretArn # ""
    THEN LET r == IF fetched THEN GetSecret(creds) ELSE SecretNotFound(creds)
         IN  [val |-> r.val, err |-> r.err, reads |-> 1]
    ELSE [val |-> "", err |-> NoErr, reads |-> 0]

\* parseCreds that reads the secret a second time when the read fails.
parseCredsRetry(creds, fetched) ==
    IF creds.secretArn # ""
    THEN LET r == IF fetched THEN GetSecret(creds) ELSE SecretNotFound(creds)
         IN  [val |-> r.val, err |-> r.err, reads |-> IF fetched THEN 1 ELSE 2]
    ELSE IF creds.plainText # ""
    THEN [val |-> creds.plainText, err |-> NoErr, reads |-> 0]
    ELSE [val |-> "", err |-> NoErr, reads |-> 0]

\* parseCreds: `fetched` is true when the secret-store read succeeds.  The
\* result carries the number of reads made.
parseCreds(creds, fetched) ==
    IF creds.secretArn # ""
    THEN LET r == IF fetched THEN GetSecret(creds) ELSE SecretNotFound(creds)
         IN  [val |-> r.val, err |-> r.err, reads |-> 1]
    ELSE IF creds.plainText # ""
    THEN [val |-> creds.plainText, err |-> NoErr, reads |-> 0]
    ELSE [val |-> "", err |-> NoErr, reads |-> 0]

----------------------------------------------------------------------------
(* Image references *)

KnownTransports == {"docker", "s3", "dir", "oci", "docker-archive", "oci-archive"}

RECURSIVE FirstColon(_, _)
FirstColon(img, i) ==
    IF i > Len(img) THEN 0
    ELSE IF img[i] = ":" THEN i
    ELSE FirstColon(img, i + 1)

\* ParseImageName that does not look the transport up.
ParseImageNameAnyTransport(img) ==
    LET c == FirstColon(img, 1) IN
    IF c = 0
    THEN [ref |-> [set |-> FALSE],
          err |-> Err(<<"Invalid image name ">> \o img \o <<", expected colon-separated transport:reference">>)]
    ELSE LET transport == SubSeq(img, 1, c - 1)
             rest == SubSeq(img, c + 1, Len(img))
         IN  IF Len(transport) # 1 \/ Len(rest) < 2 \/ rest[1] # "//"
             THEN [ref |-> [set |-> FALSE],
                   err |-> Err(transport \o <<": image name does not start with //">>)]
             ELSE [ref |-> [set |-> TRUE, transport |-> transport[1], name |-> rest[2]],
                   err |-> NoErr]

\* alltransports.ParseImageName: split at the first colon, look the
\* transport up, let it parse the rest.
ParseImageName(img) ==
    LET c == FirstColon(img, 1) IN
    IF c = 0
    THEN [ref |-> None,
          err |-> Err(<<"Invalid image name ">> \o img \o <<", expected colon-separated transport:reference">>)]
    ELSE LET transport == SubSeq(img, 1, c - 1)
             rest == SubSeq(img, c + 1, Len(img))
         IN  IF Len(transport) # 1 \/ transport[1] \notin KnownTransports
             THEN [ref |-> None,
                   err |-> Err(<<"Invalid image name ">> \o img \o <<", unknown transport ">> \o transport)]
             ELSE IF Len(rest) < 2 \/ rest[1] # "//"
             THEN [ref |-> None,
                   err |-> Err(transport \o <<": image name does not start with //">>)]
             ELSE [ref |-> [set |-> TRUE, transport |-> transport[1], name |-> rest[2]],
                   err |-> NoErr]

\* NewImageOpts(image).SetCreds(creds).NewSystemContext()
NewSystemContext(img, creds, ok) ==
    IF ok
    THEN [ctx |-> [set |-> TRUE, image |-> img, creds |-> creds], err |-> NoErr]
    ELSE [ctx |-> None, err |-> Err(<<"building system context failed for ">> \o img)]

\* newTimeoutContext: context.Background() and a cancel that does nothing.
newTimeoutContext == [set |-> TRUE, hasDeadline |-> FALSE, cancellable |-> FALSE]

----------------------------------------------------------------------------
(* Rendering *)

CredsText(c) == <<c.plainText, c.secretArn, c.usernameKey, c.passwordKey>>

\* fmt's %v of a UserParameters value: every field.
ParametersText(p) ==
    p.SrcImage \o CredsText(p.SrcCreds) \o p.DestImage \o CredsText(p.DestCreds)

\* Dumps(event): the JSON text of the whole event.
Dumps(e) ==
    <<e.RequestType, e.PhysicalResourceID, e.ID>> \o ParametersText(e.params)

\* The decoding of the event's payload into UserParameters.
Decode(e) == e.params

SummaryText(p) == <<"Copied image ">> \o p.SrcImage \o <<" to ">> \o p.DestImage

----------------------------------------------------------------------------
(* State *)

Fresh ==
    /\ userParameters = ZeroParameters
    /\ srcCreds = ""
    /\ destCreds = ""
    /\ srcRef = None
    /\ destRef = None
    /\ srcCtx = None
    /\ destCtx = None
    /\ copyCtx = None
    /\ policy = [acquired |-> 0, destroyed |-> 0]
    /\ reads = [src |-> 0, dest |-> 0]
    /\ engineCalls = 0
    /\ engineErr = NoErr
    /\ hiErr = NoErr
    /\ returned = None
    /\ successCalls = <<>>
    /\ failureCalls = <<>>
    /\ log = <<>>
    /\ ctxDone = FALSE
    /\ steps = <<>>
    /\ putJobErr = NoErr

\* Nothing is synthesized or deployed yet.
Init ==
    /\ invoker = ""
    /\ synth = None
    /\ pc = "construct"
    /\ event = NoEvent
    /\ Fresh

----------------------------------------------------------------------------
(* The ECRDeployment construct *)

EmptyEnvironment == [k \in {} |-> ""]

EnvironmentSet ==
    { EmptyEnvironment,
      [k \in {"INVOKER"} |-> "CODEPIPELINE"],
      [k \in {"INVOKER"} |-> "CLOUDFORMATION"],
      [k \in {"LOG_LEVEL"} |-> "debug"] }

\* The props of the construct: whether a stage and a wave are supplied, and
\* the user's environment entries.
ECRDeploymentPropsSet == [stage : BOOLEAN, wave : BOOLEAN, environment : EnvironmentSet]

\* { ...a, ...b }: the entries of b win.
Spread(a, b) ==
    [k \in DOMAIN a \cup DOMAIN b |-> IF k \in DOMAIN b THEN b[k] ELSE a[k]]

\* os.Getenv: the empty string for a variable that is not set.
Getenv(env, k) == IF k \in DOMAIN env THEN env[k] ELSE ""

\* The constructor with the user's entries spread after INVOKER.
ECRDeploymentUserEnvLast(props) ==
    LET partOfPipeline == props.stage \/ props.wave
        inv == IF partOfPipeline THEN "CODEPIPELINE" ELSE "CLOUDFORMATION"
    IN  [set |-> TRUE,
         props |-> props,
         lambdaId |-> IF partOfPipeline THEN "ImageCopyHandler" ELSE "CustomResourceHandler",
         lambdaPurpose |-> IF partOfPipeline THEN "ImageCopy" ELSE "Custom::CDKECRDeployment",
         environment |-> Spread([k \in {"INVOKER"} |-> inv], props.environment),
         stageActions |-> IF partOfPipeline /\ props.stage THEN 1 ELSE 0,
         wavePosts |-> IF partOfPipeline /\ props.wave THEN 1 ELSE 0,
         customResources |-> IF partOfPipeline THEN 0 ELSE 1]

\* The constructor: the handler function with its environment, then either
\* the pipeline action (on the stage, and as a post step of the wave) or the
\* custom resource.
ECRDeployment(props) ==
    LET partOfPipeline == props.stage \/ props.wave
        inv == IF partOfPipeline THEN "CODEPIPELINE" ELSE "CLOUDFORMATION"
    IN  [set |-> TRUE,
         props |-> props,
         lambdaId |-> IF partOfPipeline THEN "ImageCopyHandler" ELSE "CustomResourceHandler",
         lambdaPurpose |-> IF partOfPipeline THEN "ImageCopy" ELSE "Custom::CDKECRDeployment",
         environment |-> Spread(props.environment, [k \in {"INVOKER"} |-> inv]),
         stageActions |-> IF partOfPipeline /\ props.stage THEN 1 ELSE 0,
         wavePosts |-> IF partOfPipeline /\ props.wave THEN 1 ELSE 0,
         customResources |-> IF partOfPipeline THEN 0 ELSE 1]

deployVars == <<event, userParameters, srcCreds, destCreds, srcRef, destRef, srcCtx,
                destCtx, copyCtx, policy, reads, engineCalls, engineErr, hiErr, returned,
                successCalls, failureCalls, log, ctxDone, steps, putJobErr>>

\* new ECRDeployment(scope, id, props)
Construct ==
    /\ pc = "construct"
    /\ \E props \in ECRDeploymentPropsSet : synth' = ECRDeployment(props)
    /\ pc' = "synthesized"
    /\ UNCHANGED <<invoker, deployVars>>

\* The synthesized function is deployed: its process starts with the
\* environment the construct gave it.
Deploy ==
    /\ pc = "synthesized"
    /\ invoker' = Getenv(synth.environment, "INVOKER")
    /\ synth' = None
    /\ pc' = "idle"
    /\ UNCHANGED deployVars

\* The handler binary started in any other environment.
ProcessStart ==
    /\ pc = "construct"
    /\ invoker' \in InvokerSet
    /\ pc' = "idle"
    /\ UNCHANGED <<synth, deployVars>>

----------------------------------------------------------------------------
(* Dispatch *)

\* main: the handler the process registers for its lifetime.
Handler == IF invoker = "CODEPIPELINE" THEN "codePipelineHandler" ELSE "cfnHandler"

Append2(l, a, b) == Append(Append(l, a), b)

hiVars == <<srcCreds, destCreds, srcRef, destRef, srcCtx, destCtx, copyCtx,
            policy, reads, engineCalls, engineErr, hiErr, steps>>

reportVars == <<returned, successCalls, failureCalls, putJobErr>>

\* The Lambda runtime hands the next event to the registered handler.
LambdaStart ==
    /\ pc = "idle"
    /\ event' \in (IF Handler = "codePipelineHandler" THEN CodePipelineJobEvents ELSE CfnEvents)
    /\ pc' = "handler"
    /\ UNCHANGED <<invoker, synth, userParameters, hiVars, reportVars, log, ctxDone>>

\* The invocation is over: nothing of it is kept for the next one.
InvocationEnds ==
    /\ pc = "done"
    /\ pc' = "idle"
    /\ event' = NoEvent
    /\ userParameters' = ZeroParameters
    /\ srcCreds' = ""
    /\ destCreds' = ""
    /\ srcRef' = None
    /\ destRef' = None
    /\ srcCtx' = None
    /\ destCtx' = None
    /\ copyCtx' = None
    /\ policy' = [acquired |-> 0, destroyed |-> 0]
    /\ reads' = [src |-> 0, dest |-> 0]
    /\ engineCalls' = 0
    /\ engineErr' = NoErr
    /\ hiErr' = NoErr
    /\ returned' = None
    /\ successCalls' = <<>>
    /\ failureCalls' = <<>>
    /\ log' = <<>>
    /\ ctxDone' = FALSE
    /\ steps' = <<>>
    /\ putJobErr' = NoErr
    /\ UNCHANGED <<invoker, synth>>

----------------------------------------------------------------------------
(* cfnHandler, up to its call of handleImages *)

\* cfnHandler without the early return for Delete.
cfnHandlerNoDelete ==
    /\ pc = "handler"
    /\ Handler = "cfnHandler"
    /\ log' = Append2(log, <<"Event: ">> \o Dumps(event), <<"Event: ">> \o Dumps(event))
    /\ userParameters' = Decode(event)
    /\ pc' = "resolveSrc"
    /\ UNCHANGED <<invoker, synth, event, hiVars, reportVars, ctxDone>>

cfnHandler ==
    /\ pc = "handler"
    /\ Handler = "cfnHandler"
    /\ IF event.RequestType = RequestDelete
       THEN /\ log' = Append(log, <<"Event: ">> \o Dumps(event))
            /\ returned' = [set |-> TRUE, physicalResourceID |-> event.PhysicalResourceID, err |-> NoErr]
            /\ pc' = "done"
            /\ UNCHANGED userParameters
       ELSE IF event.RequestType \in {RequestCreate, RequestUpdate}
       THEN /\ log' = Append2(log, <<"Event: ">> \o Dumps(event), <<"Event: ">> \o Dumps(event))
            /\ userParameters' = Decode(event)
            /\ pc' = "resolveSrc"
            /\ UNCHANGED returned
       ELSE /\ log' = Append(log, <<"Event: ">> \o Dumps(event))
            /\ returned' = [set |-> TRUE, physicalResourceID |-> event.PhysicalResourceID, err |-> NoErr]
            /\ pc' = "done"
            /\ UNCHANGED userParameters
    /\ UNCHANGED <<invoker, synth, event, hiVars, successCalls, failureCalls, ctxDone, putJobErr>>

\* cfnHandlerReturn that drops the error of handleImages.
cfnHandlerReturnNil ==
    /\ pc = "returned"
    /\ Handler = "cfnHandler"
    /\ returned' = [set |-> TRUE, physicalResourceID |-> event.PhysicalResourceID, err |-> NoErr]
    /\ pc' = "done"
    /\ UNCHANGED <<invoker, synth, event, userParameters, hiVars, successCalls, failureCalls, log, ctxDone,
                   putJobErr>>

\* cfnHandler, after handleImages has returned.
cfnHandlerReturn ==
    /\ pc = "returned"
    /\ Handler = "cfnHandler"
    /\ returned' = [set |-> TRUE, physicalResourceID |-> event.PhysicalResourceID, err |-> hiErr]
    /\ pc' = "done"
    /\ UNCHANGED <<invoker, synth, event, userParameters, hiVars, successCalls, failureCalls, log, ctxDone,
                   putJobErr>>

----------------------------------------------------------------------------
(* codePipelineHandler *)

codePipelineHandler ==
    /\ pc = "handler"
    /\ Handler = "codePipelineHandler"
    /\ userParameters' = Decode(event)
    /\ log' = Append2(log, <<"Event log: ">> \o Dumps(event),
                           <<"parameters obtained: ">> \o ParametersText(Decode(event)))
    /\ pc' = "resolveSrc"
    /\ UNCHANGED <<invoker, synth, event, hiVars, reportVars, ctxDone>>

\* The handler returns nothing to the runtime.
Void == [set |-> TRUE, physicalResourceID |-> "", err |-> NoErr]

\* ReportFailure with a fixed failure message in place of the error's text.
ReportFailureNoDetail ==
    /\ pc = "returned"
    /\ Handler = "codePipelineHandler"
    /\ hiErr.isErr
    /\ \E updateErr \in {NoErr, Err(<<"RequestError">>)} :
          /\ putJobErr' = updateErr
          /\ log' = IF updateErr.isErr
                    THEN Append2(log, <<"copy image failed: ">> \o hiErr.msg,
                                      <<"putting job failure results failed: ">> \o hiErr.msg)
                    ELSE Append(log, <<"copy image failed: ">> \o hiErr.msg)
    /\ failureCalls' = Append(failureCalls,
                              [JobId |-> event.ID, Message |-> <<"copy image failed">>,
                               Type |-> "JobFailed"])
    /\ returned' = Void
    /\ pc' = "done"
    /\ UNCHANGED <<invoker, synth, event, userParameters, hiVars, successCalls, ctxDone>>

\* handleImages failed: log, PutJobFailureResult, log when it is not delivered.
ReportFailure ==
    /\ pc = "returned"
    /\ Handler = "codePipelineHandler"
    /\ hiErr.isErr
    /\ \E updateErr \in {NoErr, Err(<<"RequestError">>)} :
          /\ putJobErr' = updateErr
          /\ log' = IF updateErr.isErr
                    THEN Append2(log, <<"copy image failed: ">> \o hiErr.msg,
                                      <<"putting job failure results failed: ">> \o hiErr.msg)
                    ELSE Append(log, <<"copy image failed: ">> \o hiErr.msg)
    /\ failureCalls' = Append(failureCalls,
                              [JobId |-> event.ID, Message |-> hiErr.msg, Type |-> "JobFailed"])
    /\ returned' = Void
    /\ pc' = "done"
    /\ UNCHANGED <<invoker, synth, event, userParameters, hiVars, successCalls, ctxDone>>

\* ReportSuccess that reports the job failed when the success report is not delivered.
ReportSuccessFallsBack ==
    /\ pc = "returned"
    /\ Handler = "codePipelineHandler"
    /\ ~hiErr.isErr
    /\ \E err \in {NoErr, Err(<<"RequestError">>)} :
          /\ putJobErr' = err
          /\ log' = IF err.isErr
                    THEN Append(log, <<"putting job success results failed: ">> \o err.msg)
                    ELSE log
          /\ failureCalls' = IF err.isErr
                             THEN Append(failureCalls,
                                         [JobId |-> event.ID, Message |-> err.msg, Type |-> "JobFailed"])
                             ELSE failureCalls
    /\ successCalls' = Append(successCalls,
                              [JobId |-> event.ID, Summary |-> SummaryText(userParameters)])
    /\ returned' = Void
    /\ pc' = "done"
    /\ UNCHANGED <<invoker, synth, event, userParameters, hiVars, ctxDone>>

\* ReportSuccess with the two image names of the summary exchanged.
ReportSuccessSwapped ==
    /\ pc = "returned"
    /\ Handler = "codePipelineHandler"
    /\ ~hiErr.isErr
    /\ \E err \in {NoErr, Err(<<"RequestError">>)} :
          /\ putJobErr' = err
          /\ log' = IF err.isErr
                    THEN Append(log, <<"putting job success results failed: ">> \o err.msg)
                    ELSE log
    /\ successCalls' = Append(successCalls,
                              [JobId |-> event.ID,
                               Summary |-> <<"Copied image ">> \o userParameters.DestImage
                                           \o <<" to ">> \o userParameters.SrcImage])
    /\ returned' = Void
    /\ pc' = "done"
    /\ UNCHANGED <<invoker, synth, event, userParameters, hiVars, failureCalls, ctxDone>>

\* handleImages succeeded: PutJobSuccessResult, log when it is not delivered.
ReportSuccess ==
    /\ pc = "returned"
    /\ Handler = "codePipelineHandler"
    /\ ~hiErr.isErr
    /\ \E err \in {NoErr, Err(<<"RequestError">>)} :
          /\ putJobErr' = err
          /\ log' = IF err.isErr
                    THEN Append(log, <<"putting job success results failed: ">> \o err.msg)
                    ELSE log
    /\ successCalls' = Append(successCalls,
                              [JobId |-> event.ID, Summary |-> SummaryText(userParameters)])
    /\ returned' = Void
    /\ pc' = "done"
    /\ UNCHANGED <<invoker, synth, event, userParameters, hiVars, failureCalls, ctxDone>>

----------------------------------------------------------------------------
(* handleImages, one action per step; a failing step returns its error *)

outerVars == <<invoker, synth, event, userParameters, returned, successCalls, failureCalls, ctxDone,
               putJobErr>>

\* ResolveSrcCreds that goes on to the destination credential after a failure.
ResolveSrcCredsGoesOn ==
    /\ pc = "resolveSrc"
    /\ \E fetched \in BOOLEAN :
          LET r == parseCreds(userParameters.SrcCreds, fetched) IN
          /\ reads' = [reads EXCEPT !.src = @ + r.reads]
          /\ steps' = Append(steps, [name |-> "resolveSrc", ok |-> ~r.err.isErr])
          /\ srcCreds' = r.val
          /\ hiErr' = r.err
          /\ pc' = "resolveDest"
    /\ UNCHANGED <<outerVars, log, destCreds, srcRef, destRef, srcCtx, destCtx, copyCtx,
                   policy, engineCalls, engineErr>>

ResolveSrcCreds ==
    /\ pc = "resolveSrc"
    /\ \E fetched \in BOOLEAN :
          LET r == parseCreds(userParameters.SrcCreds, fetched) IN
          /\ reads' = [reads EXCEPT !.src = @ + r.reads]
          /\ steps' = Append(steps, [name |-> "resolveSrc", ok |-> ~r.err.isErr])
          /\ IF r.err.isErr
             THEN /\ hiErr' = r.err
                  /\ pc' = "returned"
                  /\ UNCHANGED srcCreds
             ELSE /\ srcCreds' = r.val
                  /\ pc' = "resolveDest"
                  /\ UNCHANGED hiErr
    /\ UNCHANGED <<outerVars, log, destCreds, srcRef, destRef, srcCtx, destCtx, copyCtx,
                   policy, engineCalls, engineErr>>

\* ResolveDestCreds whose log line prints the credentials in place of the images.
ResolveDestCredsLogsCreds ==
    /\ pc = "resolveDest"
    /\ \E fetched \in BOOLEAN :
          LET r == parseCreds(userParameters.DestCreds, fetched) IN
          /\ reads' = [reads EXCEPT !.dest = @ + r.reads]
          /\ steps' = Append(steps, [name |-> "resolveDest", ok |-> ~r.err.isErr])
          /\ IF r.err.isErr
             THEN /\ hiErr' = r.err
                  /\ pc' = "returned"
                  /\ UNCHANGED <<destCreds, log>>
             ELSE /\ destCreds' = r.val
                  /\ log' = Append(log, <<"SrcImage: ", srcCreds, " DestImage: ", r.val>>)
                  /\ pc' = "parseSrc"
                  /\ UNCHANGED hiErr
    /\ UNCHANGED <<outerVars, srcCreds, srcRef, destRef, srcCtx, destCtx, copyCtx,
                   policy, engineCalls, engineErr>>

ResolveDestCreds ==
    /\ pc = "resolveDest"
    /\ \E fetched \in BOOLEAN :
          LET r == parseCreds(userParameters.DestCreds, fetched) IN
          /\ reads' = [reads EXCEPT !.dest = @ + r.reads]
          /\ steps' = Append(steps, [name |-> "resolveDest", ok |-> ~r.err.isErr])
          /\ IF r.err.isErr
             THEN /\ hiErr' = r.err
                  /\ pc' = "returned"
                  /\ UNCHANGED <<destCreds, log>>
             ELSE /\ destCreds' = r.val
                  /\ log' = Append(log, <<"SrcImage: ">> \o userParameters.SrcImage
                                        \o <<" DestImage: ">> \o userParameters.DestImage)
                  /\ pc' = "parseSrc"
                  /\ UNCHANGED hiErr
    /\ UNCHANGED <<outerVars, srcCreds, srcRef, destRef, srcCtx, destCtx, copyCtx,
                   policy, engineCalls, engineErr>>

ParseSrcImage ==
    /\ pc = "parseSrc"
    /\ LET r == ParseImageName(userParameters.SrcImage) IN
       /\ steps' = Append(steps, [name |-> "parseSrc", ok |-> ~r.err.isErr])
       /\ IF r.err.isErr
          THEN /\ hiErr' = r.err
               /\ pc' = "returned"
               /\ UNCHANGED srcRef
          ELSE /\ srcRef' = r.ref
               /\ pc' = "parseDest"
               /\ UNCHANGED hiErr
    /\ UNCHANGED <<outerVars, log, srcCreds, destCreds, destRef, srcCtx, destCtx, copyCtx,
                   policy, reads, engineCalls, engineErr>>

ParseDestImage ==
    /\ pc = "parseDest"
    /\ LET r == ParseImageName(userParameters.DestImage) IN
       /\ steps' = Append(steps, [name |-> "parseDest", ok |-> ~r.err.isErr])
       /\ IF r.err.isErr
          THEN /\ hiErr' = r.err
               /\ pc' = "returned"
               /\ UNCHANGED destRef
          ELSE /\ destRef' = r.ref
               /\ pc' = "buildSrc"
               /\ UNCHANGED hiErr
    /\ UNCHANGED <<outerVars, log, srcCreds, destCreds, srcRef, srcCtx, destCtx, copyCtx,
                   policy, reads, engineCalls, engineErr>>

BuildSrcCtx ==
    /\ pc = "buildSrc"
    /\ \E ok \in BOOLEAN :
          LET r == NewSystemContext(userParameters.SrcImage, srcCreds, ok) IN
          /\ steps' = Append(steps, [name |-> "buildSrc", ok |-> ok])
          /\ IF r.err.isErr
             THEN /\ hiErr' = r.err
                  /\ pc' = "returned"
                  /\ UNCHANGED srcCtx
             ELSE /\ srcCtx' = r.ctx
                  /\ pc' = "buildDest"
                  /\ UNCHANGED hiErr
    /\ UNCHANGED <<outerVars, log, srcCreds, destCreds, srcRef, destRef, destCtx, copyCtx,
                   policy, reads, engineCalls, engineErr>>

BuildDestCtx ==
    /\ pc = "buildDest"
    /\ \E ok \in BOOLEAN :
          LET r == NewSystemContext(userParameters.DestImage, destCreds, ok) IN
          /\ steps' = Append(steps, [name |-> "buildDest", ok |-> ok])
          /\ IF r.err.isErr
             THEN /\ hiErr' = r.err
                  /\ pc' = "returned"
                  /\ UNCHANGED destCtx
             ELSE /\ destCtx' = r.ctx
                  /\ pc' = "policy"
                  /\ UNCHANGED hiErr
    /\ UNCHANGED <<outerVars, log, srcCreds, destCreds, srcRef, destRef, srcCtx, copyCtx,
                   policy, reads, engineCalls, engineErr>>

\* newTimeoutContext, then newPolicyContext; the deferred cancel does nothing.
AcquirePolicy ==
    /\ pc = "policy"
    /\ copyCtx' = newTimeoutContext
    /\ \E ok \in BOOLEAN :
          /\ steps' = Append(steps, [name |-> "policy", ok |-> ok])
          /\ IF ok
             THEN /\ policy' = [policy EXCEPT !.acquired = @ + 1]
                  /\ pc' = "copy"
                  /\ UNCHANGED hiErr
             ELSE /\ hiErr' = Err(<<"new policy context failed">>)
                  /\ pc' = "returned"
                  /\ UNCHANGED policy
    /\ UNCHANGED <<outerVars, log, srcCreds, destCreds, srcRef, destRef, srcCtx, destCtx,
                   reads, engineCalls, engineErr>>

\* copy.Image is called and is in flight.
CopyImage ==
    /\ pc = "copy"
    /\ engineCalls' = engineCalls + 1
    /\ pc' = "copying"
    /\ UNCHANGED <<outerVars, log, srcCreds, destCreds, srcRef, destRef, srcCtx, destCtx,
                   copyCtx, policy, reads, engineErr, hiErr, steps>>

\* What handleImages returns for the engine's result.
CopyResult(e) == IF e.isErr THEN Err(<<"copy image failed: ">> \o e.msg) ELSE NoErr

\* EngineReturns that calls the engine again after a failure.
EngineReturnsRetries ==
    /\ pc = "copying"
    /\ \E e \in {NoErr} \cup {Err(<<t>>) : t \in EngineErrors} :
          /\ engineErr' = e
          /\ IF e.isErr /\ engineCalls < 2
             THEN /\ pc' = "copy"
                  /\ UNCHANGED <<hiErr, steps, policy>>
             ELSE /\ hiErr' = CopyResult(e)
                  /\ steps' = Append(steps, [name |-> "copy", ok |-> ~e.isErr])
                  /\ policy' = [policy EXCEPT !.destroyed = @ + 1]
                  /\ pc' = "returned"
    /\ UNCHANGED <<outerVars, log, srcCreds, destCreds, srcRef, destRef, srcCtx, destCtx,
                   copyCtx, reads, engineCalls>>

\* EngineReturns that releases the policy handle on the success path only.
EngineReturnsDestroyOnSuccess ==
    /\ pc = "copying"
    /\ \E e \in {NoErr} \cup {Err(<<t>>) : t \in EngineErrors} :
          /\ engineErr' = e
          /\ hiErr' = CopyResult(e)
          /\ steps' = Append(steps, [name |-> "copy", ok |-> ~e.isErr])
          /\ policy' = IF e.isErr THEN policy ELSE [policy EXCEPT !.destroyed = @ + 1]
    /\ pc' = "returned"
    /\ UNCHANGED <<outerVars, log, srcCreds, destCreds, srcRef, destRef, srcCtx, destCtx,
                   copyCtx, reads, engineCalls>>

\* The engine returns on its own; the deferred Destroy runs as handleImages returns.
EngineReturns ==
    /\ pc = "copying"
    /\ \E e \in {NoErr} \cup {Err(<<t>>) : t \in EngineErrors} :
          /\ engineErr' = e
          /\ hiErr' = CopyResult(e)
          /\ steps' = Append(steps, [name |-> "copy", ok |-> ~e.isErr])
    /\ policy' = [policy EXCEPT !.destroyed = @ + 1]
    /\ pc' = "returned"
    /\ UNCHANGED <<outerVars, log, srcCreds, destCreds, srcRef, destRef, srcCtx, destCtx,
                   copyCtx, reads, engineCalls>>

\* The deadline of the surrounding invocation expires while the engine call
\* is in flight.  The context of the call is not derived from it.
DeadlineExpires ==
    /\ pc = "copying"
    /\ ~ctxDone
    /\ ctxDone' = TRUE
    /\ UNCHANGED <<invoker, synth, pc, event, userParameters, hiVars, reportVars, log>>

----------------------------------------------------------------------------

Next ==
    \/ Construct
    \/ Deploy
    \/ ProcessStart
    \/ LambdaStart
    \/ InvocationEnds
    \/ cfnHandler
    \/ cfnHandlerReturn
    \/ codePipelineHandler
    \/ ReportFailure
    \/ ReportSuccess
    \/ ResolveSrcCreds
    \/ ResolveDestCreds
    \/ ParseSrcImage
    \/ ParseDestImage
    \/ BuildSrcCtx
    \/ BuildDestCtx
    \/ AcquirePolicy
    \/ CopyImage
    \/ EngineReturns
    \/ DeadlineExpires

Spec == Init /\ [][Next]_vars

\* Every step of the handler itself is taken once it is enabled.  The engine
\* (EngineReturns) and the host (LambdaStart, InvocationEnds, DeadlineExpires) and the deployment are not bound
\* to act.
HandlerStep ==
    \/ cfnHandler
    \/ cfnHandlerReturn
    \/ codePipelineHandler
    \/ ReportFailure
    \/ ReportSuccess
    \/ ResolveSrcCreds
    \/ ResolveDestCreds
    \/ ParseSrcImage
    \/ ParseDestImage
    \/ BuildSrcCtx
    \/ BuildDestCtx
    \/ AcquirePolicy
    \/ CopyImage

FairSpec == Spec /\ WF_vars(HandlerStep)

----------------------------------------------------------------------------
(* Properties *)

Pipeline == Handler = "codePipelineHandler"

Provisioning == Handler = "cfnHandler"

SomeStepFailed == \E i \in 1..Len(steps) : ~steps[i].ok

CopySucceeded == Len(steps) = 8 /\ ~SomeStepFailed

\* C1: in the pipeline flow, an invocation whose copy succeeds calls
\* PutJobSuccessResult exactly once, with its job id and the summary
\* "Copied image <SrcImage> to <DestImage>", and never PutJobFailureResult;
\* no success report is made before the handler is done.
C1_SuccessReportedOnce ==
    Pipeline =>
        /\ Len(successCalls) <= 1
        /\ pc # "done" => successCalls = <<>>
        /\ (pc = "done" /\ CopySucceeded) =>
              /\ successCalls =
                    << [JobId |-> event.ID,
                        Summary |-> <<"Copied image ">> \o event.params.SrcImage
                                    \o <<" to ">> \o event.params.DestImage] >>
              /\ failureCalls = <<>>

C1_Witness ==
    /\ Pipeline
    /\ pc = "done"
    /\ CopySucceeded
    /\ engineCalls = 1
    /\ Len(successCalls) = 1
    /\ event.params.SrcImage # event.params.DestImage

\* C2 (as stated): in the pipeline flow, an invocation whose copy fails calls
\* PutJobFailureResult exactly once with its job id and the engine's error
\* text as the failure detail, and never PutJobSuccessResult.
C2_DetailIsEngineText ==
    (Pipeline /\ pc = "done" /\ engineErr.isErr) =>
        /\ Len(failureCalls) = 1
        /\ failureCalls[1].JobId = event.ID
        /\ failureCalls[1].Message = engineErr.msg
        /\ successCalls = <<>>

\* C2 (amended): in the pipeline flow, an invocation in which handleImages
\* fails calls PutJobFailureResult exactly once, with its job id and the
\* error text of handleImages as the failure detail, which for a failure of
\* the engine is "copy image failed: " followed by the engine's error text;
\* it never calls PutJobSuccessResult.
C2_FailureReportedOnce ==
    Pipeline =>
        /\ Len(failureCalls) <= 1
        /\ pc # "done" => failureCalls = <<>>
        /\ (pc = "done" /\ SomeStepFailed) =>
              /\ failureCalls =
                    << [JobId |-> event.ID, Message |-> hiErr.msg, Type |-> "JobFailed"] >>
              /\ hiErr.isErr
              /\ engineErr.isErr =>
                    failureCalls[1].Message = <<"copy image failed: ">> \o engineErr.msg
              /\ successCalls = <<>>

C2_Witness ==
    /\ Pipeline
    /\ pc = "done"
    /\ engineErr.isErr
    /\ Len(failureCalls) = 1

\* C3: in the provisioning flow a Delete request never resolves a credential,
\* never reads the secret store, never calls the copy engine, returns no
\* error and returns the event's physical resource identifier, whatever the
\* resource properties are.
C3_DeleteIsNoOp ==
    (Provisioning /\ event.RequestType = RequestDelete) =>
        /\ pc \in {"handler", "done"}
        /\ steps = <<>>
        /\ reads = [src |-> 0, dest |-> 0]
        /\ engineCalls = 0
        /\ pc = "done" =>
              /\ returned.set
              /\ returned.err = NoErr
              /\ returned.physicalResourceID = event.PhysicalResourceID

C3_Witness ==
    /\ Provisioning
    /\ event.RequestType = RequestDelete
    /\ pc = "done"
    /\ event.PhysicalResourceID = "res-1"
    /\ event.params.SrcCreds.secretArn # ""
    /\ event.params.DestImage = <<"ftp", ":", "//", "host/path">>

\* C4: in the provisioning flow a Create or Update request returns an error
\* exactly when a step of handleImages (credential resolution, reference
\* parsing, context building, the copy under its trust policy) fails, returns
\* the event's physical resource identifier in both cases and calls neither
\* job-control report; in the pipeline flow such a failure is not returned
\* to the caller and is delivered as a failure report only.
C4_FailureChannel ==
    /\ (Provisioning /\ event.RequestType \in {RequestCreate, RequestUpdate}) =>
          /\ successCalls = <<>>
          /\ failureCalls = <<>>
          /\ pc = "done" =>
                /\ returned.set
                /\ returned.err.isErr <=> SomeStepFailed
                /\ ~returned.err.isErr <=> CopySucceeded
                /\ returned.physicalResourceID = event.PhysicalResourceID
    /\ (Pipeline /\ pc = "done") =>
          /\ returned = Void
          /\ SomeStepFailed => (Len(failureCalls) = 1 /\ successCalls = <<>>)

C4_Witness ==
    /\ Provisioning
    /\ event.RequestType = RequestUpdate
    /\ pc = "done"
    /\ returned.err.isErr
    /\ steps[Len(steps)].name = "buildDest"
    /\ event.PhysicalResourceID = "res-1"

\* The credential the precedence rule gives for descriptor d once the secret
\* (if any) has been read: split path, whole-secret path, plaintext, none.
C5_Expected(d) ==
    IF d.secretArn # "" /\ d.usernameKey # "" /\ d.passwordKey # ""
    THEN LET sec == SecretStore[d.secretArn] IN
         IF sec.isMap /\ {d.usernameKey, d.passwordKey} \subseteq sec.keys
         THEN [ok |-> TRUE, val |-> sec.kv[d.usernameKey] \o ":" \o sec.kv[d.passwordKey]]
         ELSE [ok |-> FALSE, val |-> ""]
    ELSE IF d.secretArn # "" THEN [ok |-> TRUE, val |-> SecretStore[d.secretArn].raw]
    ELSE IF d.plainText # "" THEN [ok |-> TRUE, val |-> d.plainText]
    ELSE [ok |-> TRUE, val |-> ""]

C5_Resolved(d, step, val) ==
    /\ step.ok =>
          /\ C5_Expected(d).ok
          /\ val = C5_Expected(d).val
          /\ (d.secretArn # "" /\ d.plainText # "") => val # d.plainText
          /\ d = [NoCreds EXCEPT !.secretArn = "kv-secret", !.usernameKey = "u", !.passwordKey = "p"]
                => val = "alice:s3cr3t"
          /\ d = [NoCreds EXCEPT !.secretArn = "dockerhub"] => val = "token123"
    /\ ~step.ok =>
          /\ d.secretArn # ""
          /\ hiErr.msg \in {<<"SecretNotFound: ", d.secretArn>>, <<"MalformedSecret: ", d.secretArn>>}
          /\ hiErr.msg[1] = "MalformedSecret: " => ~C5_Expected(d).ok

\* C5: parseCreds follows the precedence split secret (both key names) ->
\* "<username>:<password>" or MalformedSecret, secret identifier alone ->
\* the raw secret, plaintext -> the plaintext, nothing -> the empty
\* credential without error; a descriptor with a secret identifier and a
\* plaintext never resolves to the plaintext.
C5_Precedence ==
    /\ Len(steps) >= 1 => C5_Resolved(event.params.SrcCreds, steps[1], srcCreds)
    /\ Len(steps) >= 2 => C5_Resolved(event.params.DestCreds, steps[2], destCreds)

C5_Witness ==
    /\ Len(steps) >= 2
    /\ steps[2].ok
    /\ event.params.SrcCreds = [NoCreds EXCEPT !.secretArn = "dockerhub", !.plainText = "u:p"]
    /\ srcCreds = "token123"
    /\ event.params.DestCreds.passwordKey = "p"
    /\ destCreds = "alice:s3cr3t"

C6_ReadsOf(d) == IF d.secretArn # "" THEN 1 ELSE 0

\* C6: resolving a descriptor reads the secret store exactly once when the
\* descriptor carries a secret identifier and not at all otherwise, also when
\* the read fails; an invocation makes at most two reads, one per side.
C6_ReadsPerDescriptor ==
    /\ reads.src = IF Len(steps) >= 1 THEN C6_ReadsOf(event.params.SrcCreds) ELSE 0
    /\ reads.dest = IF Len(steps) >= 2 THEN C6_ReadsOf(event.params.DestCreds) ELSE 0
    /\ reads.src + reads.dest <= 2

C6_Witness ==
    /\ pc = "done"
    /\ reads = [src |-> 1, dest |-> 1]
    /\ Len(steps) = 2
    /\ ~steps[2].ok
    /\ hiErr.msg[1] = "SecretNotFound: "

\* Every text the handler has written or returned in this invocation.
AllTexts ==
    {log[i] : i \in 1..Len(log)}
    \cup {hiErr.msg}
    \cup (IF returned.set THEN {returned.err.msg} ELSE {})
    \cup {failureCalls[i].Message : i \in 1..Len(failureCalls)}
    \cup {successCalls[i].Summary : i \in 1..Len(successCalls)}

Leaked(v) == v # "" /\ \E t \in AllTexts : Contains(t, v)

\* What comes out of the secret store, and the credentials resolved from it.
SecretMaterial ==
    {SecretStore[a].raw : a \in DOMAIN SecretStore}
    \cup UNION {{SecretStore[a].kv[k] : k \in SecretStore[a].keys} : a \in DOMAIN SecretStore}
    \cup (IF userParameters.SrcCreds.secretArn # "" THEN {srcCreds} ELSE {})
    \cup (IF userParameters.DestCreds.secretArn # "" THEN {destCreds} ELSE {})

\* C7 (as stated): no log line, returned error or failure detail contains a
\* resolved credential, whatever the shape of its descriptor (plaintext,
\* whole secret, split secret).
C7_NoCredentialInText == ~Leaked(srcCreds) /\ ~Leaked(destCreds)

\* C7 (amended): a credential resolved from the secret store (whole-secret or
\* split-secret descriptor), and any value read from the store, is in no log
\* line, returned error or failure detail; a plaintext credential is written
\* to the log with the event and the parameters.
C7_NoSecretInText ==
    /\ \A v \in SecretMaterial : ~Leaked(v)
    /\ \A side \in {"src", "dest"} :
          LET d == IF side = "src" THEN userParameters.SrcCreds ELSE userParameters.DestCreds IN
          (d.plainText # "" /\ Len(log) >= 1) => Contains(log[1], d.plainText)

C7_Witness ==
    /\ pc = "done"
    /\ srcCreds = "alice:s3cr3t"
    /\ destCreds = "token123"
    /\ engineErr.isErr
    /\ Len(log) >= 3

\* References with an unsupported transport, and with a reference malformed
\* for its transport.
UnsupportedImages ==
    { <<"ftp", ":", "//", "host/path">>, <<"docker", ":", "repo/app:v1">> }

C8_BadReference ==
    event.params.SrcImage \in UnsupportedImages \/ event.params.DestImage \in UnsupportedImages

C8_ReportedFailed ==
    /\ Provisioning => (returned.set /\ returned.err.isErr)
    /\ Pipeline => (Len(failureCalls) = 1 /\ successCalls = <<>>)

\* C8 (as stated): an invocation whose source or destination reference has
\* an unsupported or malformed transport scheme is reported failed through
\* the channel of its flow, and the copy engine is not called in it.
C8_BadSchemeAlwaysFails ==
    C8_BadReference =>
        /\ engineCalls = 0
        /\ pc = "done" => C8_ReportedFailed

\* C8 (amended): a pipeline job, or a Create or Update provisioning request,
\* whose source or destination reference has an unsupported or malformed
\* transport scheme is reported failed through the channel of its flow, and
\* no invocation with such a reference calls the copy engine; a Delete
\* request with such a reference returns no error.
C8_BadSchemeFailsCopy ==
    C8_BadReference =>
        /\ engineCalls = 0
        /\ (pc = "done" /\ event.RequestType # RequestDelete) => C8_ReportedFailed
        /\ (pc = "done" /\ event.RequestType = RequestDelete) => returned.err = NoErr

C8_Witness ==
    /\ Provisioning
    /\ event.RequestType = RequestCreate
    /\ pc = "done"
    /\ event.params.DestImage = <<"ftp", ":", "//", "host/path">>
    /\ Len(steps) = 4
    /\ steps[4] = [name |-> "parseDest", ok |-> FALSE]
    /\ returned.err.isErr

\* C9: the copy is bounded by the deadline of the invocation: once the
\* deadline has expired while the engine call is in flight, the call is
\* abandoned and the invocation reaches Done, also when the engine never
\* returns on its own.
C9_DeadlineEndsCopy == (pc = "copying" /\ ctxDone) ~> (pc = "done")

\* C10: in the pipeline flow a job-control report that is not delivered is
\* logged and nothing else: the report is not repeated, the opposite report
\* is not made, nothing is returned to the caller and the handler is done.
C10_ReportingErrorSwallowed ==
    Pipeline =>
        /\ Len(successCalls) + Len(failureCalls) <= 1
        /\ putJobErr.isErr =>
              /\ pc = "done"
              /\ returned = Void
              /\ Len(successCalls) + Len(failureCalls) = 1
              /\ CopySucceeded =>
                    /\ failureCalls = <<>>
                    /\ log[Len(log)][1] = "putting job success results failed: "
              /\ SomeStepFailed =>
                    /\ successCalls = <<>>
                    /\ log[Len(log)][1] = "putting job failure results failed: "

C10_Witness ==
    /\ Pipeline
    /\ putJobErr.isErr
    /\ CopySucceeded
    /\ Len(successCalls) = 1

\* C11: the handler that runs is decided by INVOKER alone: the pipeline
\* handler exactly when it is "CODEPIPELINE", the provisioning handler for
\* any other value, the unset one included.  The construct sets INVOKER to
\* "CODEPIPELINE" exactly when a stage or a wave is supplied, whatever the
\* user's environment entries say, and then registers a pipeline action and
\* no custom resource; otherwise a custom resource and no pipeline action.
C11_InvokerIsDispatchKey ==
    /\ pc = "synthesized" =>
          LET partOfPipeline == synth.props.stage \/ synth.props.wave IN
          /\ "INVOKER" \in DOMAIN synth.environment
          /\ synth.environment["INVOKER"] = "CODEPIPELINE" <=> partOfPipeline
          /\ \A k \in DOMAIN synth.props.environment \ {"INVOKER"} :
                synth.environment[k] = synth.props.environment[k]
          /\ partOfPipeline =>
                /\ synth.stageActions + synth.wavePosts >= 1
                /\ synth.stageActions = 1 <=> synth.props.stage
                /\ synth.wavePosts = 1 <=> synth.props.wave
                /\ synth.customResources = 0
          /\ ~partOfPipeline =>
                /\ synth.customResources = 1
                /\ synth.stageActions + synth.wavePosts = 0
    /\ pc \notin {"construct", "synthesized", "idle"} =>
          /\ event.kind = "job" <=> invoker = "CODEPIPELINE"
          /\ event.kind = "cfn" <=> invoker # "CODEPIPELINE"
          /\ Len(log) >= 1 =>
                /\ log[1][1] = "Event log: " <=> invoker = "CODEPIPELINE"
                /\ log[1][1] = "Event: " <=> invoker # "CODEPIPELINE"
          /\ (pc = "done" /\ invoker # "CODEPIPELINE") =>
                (successCalls = <<>> /\ failureCalls = <<>>)
          /\ (pc = "done" /\ invoker = "CODEPIPELINE") =>
                Len(successCalls) + Len(failureCalls) = 1

C11_Witness ==
    /\ pc = "synthesized"
    /\ ~synth.props.stage
    /\ synth.props.wave
    /\ synth.props.environment = [k \in {"INVOKER"} |-> "CLOUDFORMATION"]
    /\ synth.environment["INVOKER"] = "CODEPIPELINE"
    /\ synth.wavePosts = 1
    /\ synth.customResources = 0

StepNames(ss) == [i \in 1..Len(ss) |-> ss[i].name]

CopySteps == SelectSeq(steps, LAMBDA st : st.name = "copy")

\* C12: the copy engine is called at most once in an invocation, a failed
\* copy is not tried again, and what handleImages returns for an engine
\* error is one error whose text is "copy image failed: " followed by the
\* engine's own text.
C12_EngineCalledAtMostOnce ==
    /\ engineCalls <= 1
    /\ Len(CopySteps) <= engineCalls
    /\ engineErr.isErr =>
          /\ engineCalls = 1
          /\ pc \in {"returned", "done"}
          /\ hiErr.isErr
          /\ hiErr.msg = <<"copy image failed: ">> \o engineErr.msg
          /\ Len(hiErr.msg) = 2
          /\ hiErr.msg[2] \in EngineErrors
    /\ (pc \in {"returned", "done"} /\ engineCalls = 1 /\ ~engineErr.isErr) => ~hiErr.isErr

C12_Witness ==
    /\ pc = "returned"
    /\ engineCalls = 1
    /\ engineErr = Err(<<"manifest unknown">>)
    /\ hiErr = Err(<<"copy image failed: ", "manifest unknown">>)

PolicyAcquired == \E i \in 1..Len(steps) : steps[i].name = "policy" /\ steps[i].ok

\* C13: a trust-policy handle that handleImages acquired is released exactly
\* once by the time handleImages has returned, on the success and on the
\* failure of the copy alike; it is not released while it is in use, and
\* nothing is released that was not acquired.
C13_PolicyReleasedOnce ==
    /\ policy.acquired <= 1
    /\ policy.destroyed <= policy.acquired
    /\ policy.acquired = 1 <=> PolicyAcquired
    /\ pc \in {"copy", "copying"} => policy = [acquired |-> 1, destroyed |-> 0]
    /\ pc \in {"returned", "done"} => policy.destroyed = policy.acquired

C13_Witness ==
    /\ pc = "returned"
    /\ engineErr.isErr
    /\ policy = [acquired |-> 1, destroyed |-> 1]

C13_WitnessSuccess ==
    /\ pc = "returned"
    /\ CopySucceeded
    /\ policy = [acquired |-> 1, destroyed |-> 1]

StepOrder ==
    <<"resolveSrc", "resolveDest", "parseSrc", "parseDest", "buildSrc", "buildDest",
      "policy", "copy">>

SecretErrors == {"SecretNotFound: ", "MalformedSecret: "}

\* The error the named step produces for the invocation's parameters.
C14_IsErrorOf(name, err) ==
    CASE name = "resolveSrc" ->
            /\ Len(err.msg) = 2
            /\ err.msg[1] \in SecretErrors
            /\ err.msg[2] = userParameters.SrcCreds.secretArn
      [] name = "resolveDest" ->
            /\ Len(err.msg) = 2
            /\ err.msg[1] \in SecretErrors
            /\ err.msg[2] = userParameters.DestCreds.secretArn
      [] name = "parseSrc" -> err = ParseImageName(userParameters.SrcImage).err
      [] name = "parseDest" -> err = ParseImageName(userParameters.DestImage).err
      [] name = "buildSrc" ->
            err.msg = <<"building system context failed for ">> \o userParameters.SrcImage
      [] name = "buildDest" ->
            err.msg = <<"building system context failed for ">> \o userParameters.DestImage
      [] name = "policy" -> err.msg = <<"new policy context failed">>
      [] name = "copy" -> err.msg = <<"copy image failed: ">> \o engineErr.msg

\* C14: the steps of handleImages run in one fixed order and stop at the
\* first failure: only the last step that ran can have failed, the
\* invocation then ends with the error of that step, a failed resolution of
\* the source credential leaves the destination secret unread, and the copy
\* engine is called only when both credentials, both references, both
\* contexts and the trust policy are there.
C14_FailFastInOrder ==
    /\ Len(steps) <= Len(StepOrder)
    /\ \A i \in 1..Len(steps) : steps[i].name = StepOrder[i]
    /\ \A i \in 1..Len(steps) : ~steps[i].ok => i = Len(steps)
    /\ SomeStepFailed =>
          /\ pc \in {"returned", "done"}
          /\ hiErr.isErr
          /\ C14_IsErrorOf(steps[Len(steps)].name, hiErr)
          /\ (pc = "done" /\ Provisioning) => returned.err = hiErr
          /\ (pc = "done" /\ Pipeline) =>
                (Len(failureCalls) = 1 /\ failureCalls[1].Message = hiErr.msg)
    /\ (~SomeStepFailed /\ pc \in {"returned", "done"}) => ~hiErr.isErr
    /\ (Len(steps) >= 1 /\ ~steps[1].ok) => reads.dest = 0
    /\ Len(steps) = 0 => (reads.src = 0 /\ reads.dest = 0)
    /\ engineCalls >= 1 =>
          /\ Len(steps) >= 7
          /\ \A i \in 1..7 : steps[i].ok
          /\ srcRef.set /\ destRef.set
          /\ srcCtx.set /\ destCtx.set
          /\ policy.acquired = 1

C14_Witness ==
    /\ pc = "returned"
    /\ steps = <<[name |-> "resolveSrc", ok |-> FALSE]>>
    /\ userParameters.DestCreds.secretArn # ""
    /\ reads = [src |-> 1, dest |-> 0]
    /\ hiErr = Err(<<"SecretNotFound: ", userParameters.SrcCreds.secretArn>>)

C14_WitnessCopy ==
    /\ pc = "copying"
    /\ engineCalls = 1
    /\ StepNames(steps) = SubSeq(StepOrder, 1, 7)
    /\ reads = [src |-> 1, dest |-> 1]

====
